---- MODULE Spec2Model ----
(***************************************************************************)
(* Model of the mframework specification / user-space engine               *)
(* (src/src/mframework/_mframework.py).                                    *)
(*                                                                         *)
(* Python exceptions are modelled by their class name.  The error kinds    *)
(* of the specification map onto them as follows:                          *)
(*   UnknownKey, DuplicateKey, UnknownUID   -> "KeyError"                  *)
(*   CardinalityError, MissingUID           -> "RuntimeError"              *)
(*   SchemaViolation                        -> "TypeError" / "ValueError"  *)
(*   InvalidArgument                        -> "TypeError" / "ValueError"  *)
(* "ok" stands for a call that returned normally.                          *)
(***************************************************************************)
EXTENDS Integers, Sequences, FiniteSets, TLC

VARIABLES
    fspec,      \* FeatureSpec._specs: the registry of property entries
    mspec,      \* ModelSpec._specs: the registry of feature entries
    rspec,      \* ModelSpec._results: <<>> (None) or <<the Results registry>>
    rclass,     \* Model._result_user_class is not None (set when the class is made)
    feats,      \* heap of feature user spaces: feats[h] is the _items of handle h
    model,      \* _items of the Model user space (values are handles into feats)
    results,    \* Model.results: <<>> (None) or <<the _items of the Results user space>>
    last        \* the call made last: its arguments, its error and what it returned

vars == <<fspec, mspec, rspec, rclass, feats, model, results, last>>

\* the registries and the classes made from them
regvars == <<fspec, mspec, rspec, rclass>>

(***************************************************************************)
(* Bounds of the model                                                     *)
(***************************************************************************)
\* most values one feature user space holds in the single-feature specification
MaxLen == 3
\* most feature instances on the heap in the model specification
MaxFeat == 2
\* most leaf values over all feature instances in the model specification
MaxLeaf == 2
\* most values one feature user space holds when it is only added to
MaxBulk == 4

(***************************************************************************)
(* Python values: a type tag and a payload                                 *)
(***************************************************************************)
PyInt(n) == [t |-> "int", v |-> n]

PyStr(n) == [t |-> "str", v |-> n]

PyBool(b) == [t |-> "bool", v |-> IF b THEN 1 ELSE 0]

None == [t |-> "None", v |-> 0]

Truthy(x) == x.v # 0

\* check_type(var_name, var, exp_type): isinstance; bool is a subclass of int
check_type(var, exp_type) ==
    IF var.t = exp_type \/ (exp_type = "int" /\ var.t = "bool") THEN "ok" ELSE "TypeError"

(***************************************************************************)
(* Plain dict helpers                                                      *)
(***************************************************************************)
EmptyDict == [x \in {} |-> 0]

Put(d, k, v) == [x \in (DOMAIN d) \cup {k} |-> IF x = k THEN v ELSE d[x]]

Drop(d, k) == [x \in (DOMAIN d) \ {k} |-> d[x]]

Min(S) == CHOOSE x \in S : \A y \in S : x <= y

RECURSIVE SortedSeq(_)
\* sorted(S) for a finite set of integers
SortedSeq(S) == IF S = {} THEN <<>> ELSE <<Min(S)>> \o SortedSeq(S \ {Min(S)})

\* list(d.values()) of a dict keyed by ordinals.  Every key is inserted at
\* len(d), above all earlier keys, so insertion order is ascending key order.
DictValues(d) == [i \in 1..Len(SortedSeq(DOMAIN d)) |-> d[SortedSeq(DOMAIN d)[i]]]

(***************************************************************************)
(* ItemDict: _map[kmain][idx] -> value, _uid[kmain][uid] -> idx,           *)
(* _idx[kmain][idx] -> uid                                                 *)
(***************************************************************************)
EmptyItemDict == [map |-> EmptyDict, uid |-> EmptyDict, idx |-> EmptyDict]

\* ItemDict.__missing__
ID_missing(d, kmain) ==
    [map |-> Put(d.map, kmain, EmptyDict),
     uid |-> Put(d.uid, kmain, EmptyDict),
     idx |-> Put(d.idx, kmain, EmptyDict)]

ID_setitem_first(d, kmain, value) ==
    [ID_missing(d, kmain) EXCEPT !.map[kmain] = Put(EmptyDict, 0, value)]

\* __setitem__ that leaves a gap: a further value goes to ordinal len + 1
ID_setitem_skip(d, kmain, value) ==
    IF kmain \notin DOMAIN d.map
    THEN ID_setitem_first(d, kmain, value)
    ELSE [d EXCEPT !.map[kmain] = Put(@, Cardinality(DOMAIN @) + 1, value)]

\* ItemDict.__setitem__ (kmain is a str in every call the model makes)
ID_setitem(d, kmain, value) ==
    IF kmain \notin DOMAIN d.map
    THEN ID_setitem_first(d, kmain, value)
    ELSE [d EXCEPT !.map[kmain] = Put(@, Cardinality(DOMAIN @), value)]

\* ItemDict.__getitem__: the dict after the read (a missing key is created empty)
ID_touch(d, kmain) == IF kmain \notin DOMAIN d.map THEN ID_missing(d, kmain) ELSE d

\* ItemDict.__delitem__: _map, _uid and _idx always have the same keys
ID_delitem(d, kmain) ==
    [map |-> Drop(d.map, kmain), uid |-> Drop(d.uid, kmain), idx |-> Drop(d.idx, kmain)]

\* ItemDict.len_of_type, for a key that is in _map
ID_len_of_type(d, kmain) == Cardinality(DOMAIN d.map[kmain])

\* assign_uid over a plain dict instead of a UniqueDict: a bound UID is bound anew
ID_assign_uid_plain_dict(d, kmain, uid, idx) ==
    IF kmain \notin DOMAIN d.map THEN [err |-> "KeyError", d |-> d]
    ELSE LET i == IF idx < 0 THEN ID_len_of_type(d, kmain) - 1 ELSE idx
         IN  [err |-> "ok",
              d |-> [d EXCEPT !.uid[kmain] = Put(@, uid, i),
                              !.idx[kmain] = Put(@, i, uid)]]

\* ItemDict.assign_uid(kmain, uid, idx): [err, d].  A negative idx means the
\* last entry; _uid[kmain] is a UniqueDict, _idx[kmain] a plain dict.
ID_assign_uid(d, kmain, uid, idx) ==
    IF kmain \notin DOMAIN d.map THEN [err |-> "KeyError", d |-> d]
    ELSE IF uid \in DOMAIN d.uid[kmain] THEN [err |-> "KeyError", d |-> d]
    ELSE LET i == IF idx < 0 THEN ID_len_of_type(d, kmain) - 1 ELSE idx
         IN  [err |-> "ok",
              d |-> [d EXCEPT !.uid[kmain] = Put(@, uid, i),
                              !.idx[kmain] = Put(@, i, uid)]]

\* ItemDict.get_by_uid: [err, ret]; every lookup raises KeyError when it misses
ID_get_by_uid(d, kmain, uid) ==
    IF kmain \notin DOMAIN d.uid THEN [err |-> "KeyError", ret |-> [kind |-> "none", val |-> <<>>]]
    ELSE IF uid \notin DOMAIN d.uid[kmain]
         THEN [err |-> "KeyError", ret |-> [kind |-> "none", val |-> <<>>]]
    ELSE IF d.uid[kmain][uid] \notin DOMAIN d.map[kmain]
         THEN [err |-> "KeyError", ret |-> [kind |-> "none", val |-> <<>>]]
    ELSE [err |-> "ok", ret |-> [kind |-> "value", val |-> <<d.map[kmain][d.uid[kmain][uid]]>>]]

\* the stored values of kmain as a list (empty if the key is absent)
Stored(d, kmain) == IF kmain \in DOMAIN d.map THEN DictValues(d.map[kmain]) ELSE <<>>

\* ItemDict.keys()
ID_keys(d) == DOMAIN d.map

(***************************************************************************)
(* SpecEntry and the registries                                            *)
(***************************************************************************)
\* a primitive type tag, e.g. int
TypeTag(t) == [kind |-> "type", type |-> t, gt |-> {}]

\* a schemadict {'type': t} with an optional '>' bound (gt is {} or {bound})
SchemaDict(t, gt) == [kind |-> "dict", type |-> t, gt |-> gt]

\* an object that is neither a primitive type nor a dict
OtherObject == [kind |-> "other", type |-> "", gt |-> {}]

\* an instance of FeatureSpec (the model has one: fspec)
FeatureSpecRef == [kind |-> "FeatureSpec", type |-> "", gt |-> {}]

PRIMITIVE_TYPES == {"bool", "int", "float", "str", "dict", "list", "tuple"}

is_primitve_type(obj) == obj.kind = "type" /\ obj.type \in PRIMITIVE_TYPES

\* SpecEntry.__init__: the setters run in the order schema, singleton,
\* required, doc, uid_required; [err, entry]
SpecEntry(schema, singleton, required, doc, uid_required) ==
    LET entry == [schema |-> schema, singleton |-> singleton, required |-> required,
                  doc |-> doc, uid_required |-> uid_required]
    IN  IF check_type(singleton, "bool") # "ok" THEN [err |-> "TypeError", entry |-> entry]
        ELSE IF check_type(required, "bool") # "ok" THEN [err |-> "TypeError", entry |-> entry]
        ELSE IF check_type(doc, "str") # "ok" THEN [err |-> "TypeError", entry |-> entry]
        ELSE IF check_type(uid_required, "bool") # "ok"
             THEN [err |-> "TypeError", entry |-> entry]
        ELSE IF Truthy(uid_required) /\ Truthy(singleton)
             THEN [err |-> "ValueError", entry |-> entry]
        ELSE [err |-> "ok", entry |-> entry]

\* _BaseSpec.__init__: an empty SpecDict; order is the insertion order of ent
EmptySpec == [order |-> <<>>, ent |-> EmptyDict]

\* _BaseSpec.keys
SpecKeys(spec) == spec.order

HasKey(spec, key) == key \in DOMAIN spec.ent

\* _add_item_spec over a plain dict instead of a UniqueDict: a second
\* registration of a name replaces the entry
add_item_spec_plain_dict(spec, key, schema, singleton, required, doc, uid_required) ==
    LET e == SpecEntry(schema, singleton, required, doc, uid_required)
    IN  IF e.err # "ok" THEN [err |-> e.err, spec |-> spec]
        ELSE [err |-> "ok",
              spec |-> [order |-> IF key \in DOMAIN spec.ent THEN spec.order
                                  ELSE Append(spec.order, key),
                        ent |-> Put(spec.ent, key, e.entry)]]

\* _BaseSpec._add_item_spec: the entry is built first, then stored in the
\* SpecDict (a UniqueDict); [err, spec]
add_item_spec(spec, key, schema, singleton, required, doc, uid_required) ==
    LET e == SpecEntry(schema, singleton, required, doc, uid_required)
    IN  IF e.err # "ok" THEN [err |-> e.err, spec |-> spec]
        ELSE IF key \in DOMAIN spec.ent THEN [err |-> "KeyError", spec |-> spec]
        ELSE [err |-> "ok",
              spec |-> [order |-> Append(spec.order, key), ent |-> Put(spec.ent, key, e.entry)]]

\* FeatureSpec.add_prop_spec: [err, spec]
add_prop_spec(spec, key, schema, singleton, required, doc, uid_required) ==
    IF ~(is_primitve_type(schema) \/ schema.kind = "dict")
    THEN [err |-> "TypeError", spec |-> spec]
    ELSE add_item_spec(spec, key,
                       IF is_primitve_type(schema) THEN SchemaDict(schema.type, {}) ELSE schema,
                       singleton, required, doc, uid_required)

\* ModelSpec.add_feature_spec: [err, spec]
add_feature_spec(spec, key, feature_spec, singleton, required, doc, uid_required) ==
    IF feature_spec.kind # "FeatureSpec"
    THEN [err |-> "TypeError", spec |-> spec]
    ELSE add_item_spec(spec, key, feature_spec, singleton, required, doc, uid_required)

(***************************************************************************)
(* _UserSpaceBase: the operations of a user space bound to a registry.     *)
(* Each operator gives [err, items, ret]: the error raised ("ok" if none), *)
(* the _items afterwards and the value returned.                           *)
(***************************************************************************)
Ret(kind, val) == [kind |-> kind, val |-> val]

NoRet == Ret("none", <<>>)

Result(err, items, ret) == [err |-> err, items |-> items, ret |-> ret]

\* schemadict({key: schema}).validate({key: value}) for a value that is not a
\* dict: the type is checked first (TypeError), then the '>' bound (ValueError)
schemadict_validate(schema, value) ==
    IF check_type(value, schema.type) # "ok" THEN "TypeError"
    ELSE IF \E bound \in schema.gt : ~(value.v > bound) THEN "ValueError"
    ELSE "ok"

\* _UserSpaceBase._check_key_in_spec
check_key_in_spec(specs, key) == IF HasKey(specs, key) THEN "ok" ELSE "KeyError"

\* _UserSpaceBase._check_uid_required (uid is None or a str)
check_uid_required(specs, key, uid) ==
    IF Truthy(specs.ent[key].uid_required) /\ uid = None THEN "RuntimeError" ELSE "ok"

\* _UserSpaceBase._check_against_schema: only a schema that is a dict is
\* validated; the values the model draws are scalars, never dicts
check_against_schema(specs, key, value) ==
    IF specs.ent[key].schema.kind = "dict"
    THEN schemadict_validate(specs.ent[key].schema, value)
    ELSE "ok"

\* set that checks the cardinality before it validates the value
US_set_cardinality_first(specs, items, key, value) ==
    IF check_key_in_spec(specs, key) # "ok" THEN Result("KeyError", items, NoRet)
    ELSE IF ~Truthy(specs.ent[key].singleton) THEN Result("RuntimeError", items, NoRet)
    ELSE IF check_against_schema(specs, key, value) # "ok"
         THEN Result(check_against_schema(specs, key, value), items, NoRet)
    ELSE Result("ok", ID_setitem(ID_delitem(items, key), key, value), NoRet)

\* set without the 'del self._items[key]': the value is appended
US_set_no_del(specs, items, key, value) ==
    IF check_key_in_spec(specs, key) # "ok" THEN Result("KeyError", items, NoRet)
    ELSE IF check_against_schema(specs, key, value) # "ok"
         THEN Result(check_against_schema(specs, key, value), items, NoRet)
    ELSE IF ~Truthy(specs.ent[key].singleton) THEN Result("RuntimeError", items, NoRet)
    ELSE Result("ok", ID_setitem(items, key, value), NoRet)

\* _UserSpaceBase.set
US_set(specs, items, key, value) ==
    IF check_key_in_spec(specs, key) # "ok" THEN Result("KeyError", items, NoRet)
    ELSE IF check_against_schema(specs, key, value) # "ok"
         THEN Result(check_against_schema(specs, key, value), items, NoRet)
    ELSE IF ~Truthy(specs.ent[key].singleton) THEN Result("RuntimeError", items, NoRet)
    ELSE Result("ok", ID_setitem(ID_delitem(items, key), key, value), NoRet)

\* add that stores the value before it validates it
US_add_store_first(specs, items, key, value, uid) ==
    IF check_key_in_spec(specs, key) # "ok" THEN Result("KeyError", items, NoRet)
    ELSE IF check_uid_required(specs, key, uid) # "ok"
         THEN Result("RuntimeError", items, NoRet)
    ELSE IF Truthy(specs.ent[key].singleton) THEN Result("RuntimeError", items, NoRet)
    ELSE LET stored == ID_setitem(ID_touch(items, key), key, value)
             bound == ID_assign_uid(stored, key, uid, -1)
         IN  IF check_against_schema(specs, key, value) # "ok"
             THEN Result(check_against_schema(specs, key, value), stored, NoRet)
             ELSE IF uid = None THEN Result("ok", stored, NoRet)
             ELSE Result(bound.err, bound.d, NoRet)

\* add without the check that a UID is given where one is required
US_add_no_uid_check(specs, items, key, value, uid) ==
    IF check_key_in_spec(specs, key) # "ok" THEN Result("KeyError", items, NoRet)
    ELSE IF check_against_schema(specs, key, value) # "ok"
         THEN Result(check_against_schema(specs, key, value), items, NoRet)
    ELSE IF Truthy(specs.ent[key].singleton) THEN Result("RuntimeError", items, NoRet)
    ELSE LET stored == ID_setitem(ID_touch(items, key), key, value)
             bound == ID_assign_uid(stored, key, uid, -1)
         IN  IF uid = None THEN Result("ok", stored, NoRet)
             ELSE Result(bound.err, bound.d, NoRet)

\* add that assigns the UID before it stores the value
US_add_bind_first(specs, items, key, value, uid) ==
    IF check_key_in_spec(specs, key) # "ok" THEN Result("KeyError", items, NoRet)
    ELSE IF check_uid_required(specs, key, uid) # "ok"
         THEN Result("RuntimeError", items, NoRet)
    ELSE IF check_against_schema(specs, key, value) # "ok"
         THEN Result(check_against_schema(specs, key, value), items, NoRet)
    ELSE IF Truthy(specs.ent[key].singleton) THEN Result("RuntimeError", items, NoRet)
    ELSE LET bound == ID_assign_uid(ID_touch(items, key), key, uid, -1)
         IN  IF uid = None THEN Result("ok", ID_setitem(ID_touch(items, key), key, value), NoRet)
             ELSE IF bound.err # "ok" THEN Result(bound.err, bound.d, NoRet)
             ELSE Result("ok", ID_setitem(bound.d, key, value), NoRet)

\* _UserSpaceBase.add; the debug message reads len(self._items[key]) before
\* the value is stored, and the UID is assigned after it is stored
US_add(specs, items, key, value, uid) ==
    IF check_key_in_spec(specs, key) # "ok" THEN Result("KeyError", items, NoRet)
    ELSE IF check_uid_required(specs, key, uid) # "ok"
         THEN Result("RuntimeError", items, NoRet)
    ELSE IF check_against_schema(specs, key, value) # "ok"
         THEN Result(check_against_schema(specs, key, value), items, NoRet)
    ELSE IF Truthy(specs.ent[key].singleton) THEN Result("RuntimeError", items, NoRet)
    ELSE LET stored == ID_setitem(ID_touch(items, key), key, value)
             bound == ID_assign_uid(stored, key, uid, -1)
         IN  IF uid = None THEN Result("ok", stored, NoRet)
             ELSE Result(bound.err, bound.d, NoRet)

RECURSIVE US_add_many_skip(_, _, _, _)
\* add_many that goes on after a value that fails and raises the error at the end
US_add_many_skip(specs, items, key, values) ==
    IF values = <<>> THEN Result("ok", items, NoRet)
    ELSE LET r == US_add(specs, items, key, Head(values), None)
             rest == US_add_many_skip(specs, r.items, key, Tail(values))
         IN  IF r.err # "ok" THEN Result(r.err, rest.items, NoRet) ELSE rest

RECURSIVE US_add_many(_, _, _, _)
\* _UserSpaceBase.add_many: add(key, value) for each value, in order
US_add_many(specs, items, key, values) ==
    IF values = <<>> THEN Result("ok", items, NoRet)
    ELSE LET r == US_add(specs, items, key, Head(values), None)
         IN  IF r.err # "ok" THEN r
             ELSE US_add_many(specs, r.items, key, Tail(values))

\* _UserSpaceBase.get
US_get(specs, items, key, default, uid) ==
    IF check_key_in_spec(specs, key) # "ok" THEN Result("KeyError", items, NoRet)
    ELSE LET d == ID_touch(items, key)
         IN  IF DOMAIN d.map[key] = {} THEN Result("ok", d, default)
             ELSE IF Truthy(specs.ent[key].singleton)
                  THEN IF 0 \in DOMAIN d.map[key]
                       THEN Result("ok", d, Ret("value", <<d.map[key][0]>>))
                       ELSE Result("KeyError", d, NoRet)
             ELSE IF uid # None
                  THEN IF uid \in DOMAIN d.uid[key] /\ d.uid[key][uid] \in DOMAIN d.map[key]
                       THEN Result("ok", d, Ret("value", <<d.map[key][d.uid[key][uid]]>>))
                       ELSE Result("KeyError", d, NoRet)
             ELSE Result("ok", d, Ret("list", DictValues(d.map[key])))

\* iter without the singleton check: the value of a singleton is yielded
US_iter_unchecked(specs, items, key) ==
    IF ~HasKey(specs, key) THEN Result("KeyError", items, NoRet)
    ELSE Result("ok", ID_touch(items, key), Ret("list", DictValues(ID_touch(items, key).map[key])))

\* _UserSpaceBase.iter, run to its end: ret is the list of values yielded
US_iter(specs, items, key) ==
    IF ~HasKey(specs, key) THEN Result("KeyError", items, NoRet)
    ELSE IF Truthy(specs.ent[key].singleton) THEN Result("KeyError", items, NoRet)
    ELSE Result("ok", ID_touch(items, key), Ret("list", DictValues(ID_touch(items, key).map[key])))

\* _UserSpaceBase.len
US_len(specs, items, key) ==
    Result("ok", ID_touch(items, key),
           Ret("int", <<Cardinality(DOMAIN ID_touch(items, key).map[key])>>))

(***************************************************************************)
(* _ModelUserSpace: the operations of a Model.  Its items are handles of   *)
(* feature user spaces on the heap; each operator gives                    *)
(* [err, items, heap, ret].                                                *)
(***************************************************************************)
MResult(err, items, heap, ret) == [err |-> err, items |-> items, heap |-> heap, ret |-> ret]

\* _ModelUserSpace.set_feature: self._parent_specs[key] raises KeyError for a
\* name that is not registered; schema.user_class() is a new, empty Feature
MS_set_feature(specs, items, heap, key) ==
    IF ~HasKey(specs, key) THEN MResult("KeyError", items, heap, NoRet)
    ELSE IF ~Truthy(specs.ent[key].singleton) THEN MResult("RuntimeError", items, heap, NoRet)
    ELSE MResult("ok", ID_setitem(items, key, Len(heap) + 1), Append(heap, EmptyItemDict),
                 Ret("handle", <<Len(heap) + 1>>))

\* add_feature without the singleton check
MS_add_feature_unchecked(specs, items, heap, key, uid) ==
    IF ~HasKey(specs, key) THEN MResult("KeyError", items, heap, NoRet)
    ELSE IF check_uid_required(specs, key, uid) # "ok"
         THEN MResult("RuntimeError", items, heap, NoRet)
    ELSE LET stored == ID_setitem(ID_touch(items, key), key, Len(heap) + 1)
             bound == ID_assign_uid(stored, key, uid, -1)
             grown == Append(heap, EmptyItemDict)
         IN  IF uid = None THEN MResult("ok", stored, grown, Ret("handle", <<Len(heap) + 1>>))
             ELSE IF bound.err # "ok" THEN MResult(bound.err, bound.d, grown, NoRet)
             ELSE MResult("ok", bound.d, grown, Ret("handle", <<Len(heap) + 1>>))

\* _ModelUserSpace.add_feature
MS_add_feature(specs, items, heap, key, uid) ==
    IF ~HasKey(specs, key) THEN MResult("KeyError", items, heap, NoRet)
    ELSE IF Truthy(specs.ent[key].singleton) THEN MResult("RuntimeError", items, heap, NoRet)
    ELSE IF check_uid_required(specs, key, uid) # "ok"
         THEN MResult("RuntimeError", items, heap, NoRet)
    ELSE LET stored == ID_setitem(ID_touch(items, key), key, Len(heap) + 1)
             bound == ID_assign_uid(stored, key, uid, -1)
             grown == Append(heap, EmptyItemDict)
         IN  IF uid = None THEN MResult("ok", stored, grown, Ret("handle", <<Len(heap) + 1>>))
             ELSE IF bound.err # "ok" THEN MResult(bound.err, bound.d, grown, NoRet)
             ELSE MResult("ok", bound.d, grown, Ret("handle", <<Len(heap) + 1>>))

(***************************************************************************)
(* to_dict / from_dict.  A plain dict is a function from keys to lists;    *)
(* the scalar entries '$level' and '$uid' are held as one-element lists.   *)
(* The order of the keys of a dict is not modelled: from_dict takes them   *)
(* in the order KeySeq gives.                                              *)
(***************************************************************************)
\* key.startswith('$')
startswith_dollar(key) == key \in {"$level", "$uid"}

RECURSIVE KeySeq(_)
KeySeq(S) == IF S = {} THEN <<>>
             ELSE LET k == CHOOSE k \in S : TRUE IN <<k>> \o KeySeq(S \ {k})

\* _UserSpaceBase.to_dict of a user space with identifier uid
US_to_dict(items, level, uid) ==
    [k \in {"$level", "$uid"} \cup DOMAIN items.map |->
        IF k = "$level" THEN <<PyStr(level)>>
        ELSE IF k = "$uid" THEN <<PyStr(uid)>>
        ELSE DictValues(items.map[k])]

RECURSIVE US_from_dict_keys(_, _, _, _)
\* the loop of _UserSpaceBase.from_dict over the keys still to do
US_from_dict_keys(specs, items, d, keys) ==
    IF keys = <<>> THEN Result("ok", items, NoRet)
    ELSE LET key == Head(keys)
             r == IF startswith_dollar(key) THEN Result("ok", items, NoRet)
                  ELSE IF check_key_in_spec(specs, key) # "ok"
                       THEN Result("KeyError", items, NoRet)
                  ELSE IF Truthy(specs.ent[key].singleton)
                       THEN IF d[key] = <<>> THEN Result("IndexError", items, NoRet)
                            ELSE US_set(specs, items, key, d[key][1])
                  ELSE US_add_many(specs, items, key, d[key])
         IN  IF r.err # "ok" THEN r ELSE US_from_dict_keys(specs, r.items, d, Tail(keys))

\* a from_dict without the 'continue' of the reserved keys: a key that
\* starts with '$' goes to _check_key_in_spec like any other
US_from_dict_no_skip(specs, items, d) ==
    IF \E k \in DOMAIN d : startswith_dollar(k)
    THEN Result("KeyError", items, NoRet)
    ELSE US_from_dict_keys(specs, items, d, KeySeq(DOMAIN d))

\* _UserSpaceBase.from_dict (d is a dict in every call the model makes)
US_from_dict(specs, items, d) == US_from_dict_keys(specs, items, d, KeySeq(DOMAIN d))

\* _FeatureUserSpace._level, the str '$feature'
LevelFeature == 1

\* _ModelUserSpace._level, the str '$model'
LevelModel == 2

\* _ModelUserSpace.to_dict
MS_to_dict(items, heap) ==
    [k \in {"$level", "$uid"} \cup DOMAIN items.map |->
        IF k = "$level" THEN <<PyStr(LevelModel)>>
        ELSE IF k = "$uid" THEN <<PyStr(0)>>
        ELSE [i \in 1..Len(DictValues(items.map[k])) |->
                US_to_dict(heap[DictValues(items.map[k])[i]], LevelFeature,
                           DictValues(items.map[k])[i])]]

RECURSIVE MS_from_dict_features(_, _, _, _, _, _)
\* the inner loop of _ModelUserSpace.from_dict: one feature per fdict
MS_from_dict_features(specs, fspecs, items, heap, key, fdicts) ==
    IF fdicts = <<>> THEN MResult("ok", items, heap, NoRet)
    ELSE LET made == IF Truthy(specs.ent[key].singleton)
                     THEN MS_set_feature(specs, items, heap, key)
                     ELSE MS_add_feature(specs, items, heap, key, None)
             h == made.ret.val[1]
             filled == US_from_dict(fspecs, made.heap[h], Head(fdicts))
         IN  IF made.err # "ok" THEN made
             ELSE IF filled.err # "ok"
                  THEN MResult(filled.err, made.items,
                               [made.heap EXCEPT ![h] = filled.items], NoRet)
             ELSE MS_from_dict_features(specs, fspecs, made.items,
                                        [made.heap EXCEPT ![h] = filled.items],
                                        key, Tail(fdicts))

RECURSIVE MS_from_dict_keys(_, _, _, _, _, _)
\* the outer loop of _ModelUserSpace.from_dict over the keys still to do
MS_from_dict_keys(specs, fspecs, items, heap, d, keys) ==
    IF keys = <<>> THEN MResult("ok", items, heap, NoRet)
    ELSE LET key == Head(keys)
             r == IF startswith_dollar(key) THEN MResult("ok", items, heap, NoRet)
                  ELSE IF check_key_in_spec(specs, key) # "ok"
                       THEN MResult("KeyError", items, heap, NoRet)
                  ELSE MS_from_dict_features(specs, fspecs, items, heap, key, d[key])
         IN  IF r.err # "ok" THEN r
             ELSE MS_from_dict_keys(specs, fspecs, r.items, r.heap, d, Tail(keys))

\* _ModelUserSpace.from_dict
MS_from_dict(specs, fspecs, items, heap, d) ==
    MS_from_dict_keys(specs, fspecs, items, heap, d, KeySeq(DOMAIN d))

(***************************************************************************)
(* The authored registries: what the add_prop_spec / add_feature_spec      *)
(* calls of a model author leave behind                                    *)
(***************************************************************************)
PropArgs(key, schema, singleton, required, uid_required) ==
    [key |-> key, schema |-> schema, singleton |-> PyBool(singleton),
     required |-> PyBool(required), doc |-> PyStr(0), uid_required |-> PyBool(uid_required)]

RECURSIVE AuthorProps(_, _)
\* the FeatureSpec after add_prop_spec(**args) for each args of calls, in order
AuthorProps(spec, calls) ==
    IF calls = <<>> THEN spec
    ELSE LET c == Head(calls)
         IN  AuthorProps(add_prop_spec(spec, c.key, c.schema, c.singleton, c.required,
                                       c.doc, c.uid_required).spec, Tail(calls))

RECURSIVE AuthorFeatures(_, _)
\* the ModelSpec after add_feature_spec(**args) for each args of calls, in order
AuthorFeatures(spec, calls) ==
    IF calls = <<>> THEN spec
    ELSE LET c == Head(calls)
         IN  AuthorFeatures(add_feature_spec(spec, c.key, c.schema, c.singleton, c.required,
                                             c.doc, c.uid_required).spec, Tail(calls))

\* a feature with a required singleton "a" (an int), a list "b" of ints and
\* a list "c" of positive ints that must carry UIDs
AuthoredFeatureSpec ==
    AuthorProps(EmptySpec,
        << PropArgs("a", TypeTag("int"), TRUE, TRUE, FALSE),
           PropArgs("b", TypeTag("int"), FALSE, FALSE, FALSE),
           PropArgs("c", SchemaDict("int", {0}), FALSE, FALSE, TRUE) >>)

\* a model with a required singleton feature "F" and a list "G" of features
AuthoredModelSpec ==
    AuthorFeatures(EmptySpec,
        << PropArgs("F", FeatureSpecRef, TRUE, TRUE, FALSE),
           PropArgs("G", FeatureSpecRef, FALSE, FALSE, FALSE) >>)

\* the registry of a Results model with one singleton feature "R"
AuthoredResultSpec ==
    AuthorFeatures(EmptySpec, << PropArgs("R", FeatureSpecRef, TRUE, FALSE, FALSE) >>)

(***************************************************************************)
(* Inputs of the calls                                                     *)
(***************************************************************************)
\* property names: three registered ones and one that never is
PropKeys == {"a", "b", "c", "x"}

\* feature names: two registered ones and one that never is
FeatKeys == {"F", "G", "X"}

\* candidate values: ints and a str
Values == {PyInt(0), PyInt(1), PyStr(0)}

\* UIDs: the string "u1"
Uids == {PyStr(1)}

Call(op, h, key, val, uid, err, ret) ==
    [op |-> op, h |-> h, key |-> key, val |-> val, uid |-> uid, err |-> err, ret |-> ret]

\* the number of leaf values held by one user space
Count(items) ==
    LET RECURSIVE Sum(_)
        Sum(S) == IF S = {} THEN 0
                  ELSE LET k == CHOOSE k \in S : TRUE
                       IN  Cardinality(DOMAIN items.map[k]) + Sum(S \ {k})
    IN  Sum(DOMAIN items.map)

RECURSIVE LeafCount(_)
\* the number of leaf values held by all feature user spaces of a heap
LeafCount(heap) == IF heap = <<>> THEN 0 ELSE Count(Head(heap)) + LeafCount(Tail(heap))

(***************************************************************************)
(* Actions on a feature user space (handle h)                              *)
(***************************************************************************)
\* feature.set(key, value)
Set(h, key, value) ==
    LET r == US_set(fspec, feats[h], key, value)
    IN  /\ feats' = [feats EXCEPT ![h] = r.items]
        /\ last' = Call("set", h, key, value, None, r.err, r.ret)
        /\ UNCHANGED <<regvars, model, results>>

\* feature.add(key, value, uid=uid)
Add(h, key, value, uid) ==
    LET r == US_add(fspec, feats[h], key, value, uid)
    IN  /\ feats' = [feats EXCEPT ![h] = r.items]
        /\ last' = Call("add", h, key, value, uid, r.err, r.ret)
        /\ UNCHANGED <<regvars, model, results>>

\* feature.get(key, uid=uid)
Get(h, key, uid) ==
    LET r == US_get(fspec, feats[h], key, NoRet, uid)
    IN  /\ feats' = [feats EXCEPT ![h] = r.items]
        /\ last' = Call("get", h, key, None, uid, r.err, r.ret)
        /\ UNCHANGED <<regvars, model, results>>

\* for _ in feature.iter(key)
Iter(h, key) ==
    LET r == US_iter(fspec, feats[h], key)
    IN  /\ feats' = [feats EXCEPT ![h] = r.items]
        /\ last' = Call("iter", h, key, None, None, r.err, r.ret)
        /\ UNCHANGED <<regvars, model, results>>

\* feature.len(key)
Length(h, key) ==
    LET r == US_len(fspec, feats[h], key)
    IN  /\ feats' = [feats EXCEPT ![h] = r.items]
        /\ last' = Call("len", h, key, None, None, r.err, r.ret)
        /\ UNCHANGED <<regvars, model, results>>

(***************************************************************************)
(* Spec: one feature user space, Feature = fspec.user_class; f = Feature() *)
(***************************************************************************)
Init ==
    /\ fspec = AuthoredFeatureSpec
    /\ mspec = AuthoredModelSpec
    /\ rspec = <<>>
    /\ rclass = FALSE
    /\ feats = <<EmptyItemDict>>
    /\ model = EmptyItemDict
    /\ results = <<>>
    /\ last = Call("init", 0, "", None, None, "ok", NoRet)

Next ==
    \/ \E key \in PropKeys, value \in Values : Set(1, key, value)
    \/ \E key \in PropKeys, value \in Values, uid \in Uids \cup {None} :
            Count(feats[1]) < MaxLen /\ Add(1, key, value, uid)
    \/ \E key \in PropKeys, uid \in Uids \cup {None} : Get(1, key, uid)
    \/ \E key \in PropKeys : Iter(1, key)
    \/ \E key \in PropKeys : Length(1, key)

Spec == Init /\ [][Next]_vars

(***************************************************************************)
(* SpecBulk: one feature user space that is only added to and measured     *)
(***************************************************************************)
NextBulk ==
    \/ \E key \in PropKeys, value \in Values :
            Count(feats[1]) < MaxBulk /\ Add(1, key, value, None)
    \/ \E key \in PropKeys : Length(1, key)

SpecBulk == Init /\ [][NextBulk]_vars

(***************************************************************************)
(* Actions on the Model user space                                         *)
(***************************************************************************)
\* model.set_feature(key)
SetFeature(key) ==
    LET r == MS_set_feature(mspec, model, feats, key)
    IN  /\ model' = r.items
        /\ feats' = r.heap
        /\ last' = Call("set_feature", 0, key, None, None, r.err, r.ret)
        /\ UNCHANGED <<regvars, results>>

\* model.add_feature(key, uid=uid)
AddFeature(key, uid) ==
    LET r == MS_add_feature(mspec, model, feats, key, uid)
    IN  /\ model' = r.items
        /\ feats' = r.heap
        /\ last' = Call("add_feature", 0, key, None, uid, r.err, r.ret)
        /\ UNCHANGED <<regvars, results>>

\* model.get(key, uid=uid)
ModelGet(key, uid) ==
    LET r == US_get(mspec, model, key, NoRet, uid)
    IN  /\ model' = r.items
        /\ last' = Call("get", 0, key, None, uid, r.err, r.ret)
        /\ UNCHANGED <<regvars, feats, results>>

\* a run that makes a Results user space only when the Model has none yet
MS_run_keep(result_user_class, res) ==
    IF result_user_class /\ res = <<>> THEN <<EmptyItemDict>> ELSE res

\* the body of _ModelUserSpace.run: self.results = Results() when the class
\* has a result user class; gives the new value of self.results
MS_run(result_user_class, res) ==
    IF result_user_class THEN <<EmptyItemDict>> ELSE res

\* _ModelUserSpace.run, as called by super().run() from the user's run():
\* the Results user space is made when the class has one, and nothing is checked
Run ==
    /\ results' = MS_run(rclass, results)
    /\ last' = Call("run", 0, "", None, None, "ok", NoRet)
    /\ UNCHANGED <<regvars, feats, model>>

\* Model().from_dict(model.to_dict()): ret is the to_dict() of the new Model
RoundTrip ==
    LET r == MS_from_dict(mspec, fspec, EmptyItemDict, <<>>, MS_to_dict(model, feats))
    IN  /\ last' = Call("from_dict", 0, "", None, None, r.err,
                        Ret("dict", <<MS_to_dict(r.items, r.heap)>>))
        /\ UNCHANGED <<regvars, feats, model, results>>

(***************************************************************************)
(* SpecModel: one Model and the features made through it;                  *)
(* Model = mspec.user_class; m = Model()                                   *)
(***************************************************************************)
InitModel ==
    /\ fspec = AuthoredFeatureSpec
    /\ mspec = AuthoredModelSpec
    /\ rspec = <<AuthoredResultSpec>>
    /\ rclass = TRUE
    /\ feats = <<>>
    /\ model = EmptyItemDict
    /\ results = <<>>
    /\ last = Call("init", 0, "", None, None, "ok", NoRet)

\* the property names and values used on the features of the Model
ModelPropKeys == {"a", "b", "c"}

ModelValues == {PyInt(0), PyInt(1)}

NextModel ==
    \/ \E key \in FeatKeys : Len(feats) < MaxFeat /\ SetFeature(key)
    \/ \E key \in FeatKeys, uid \in Uids \cup {None} :
            Len(feats) < MaxFeat /\ AddFeature(key, uid)
    \/ \E key \in FeatKeys, uid \in Uids \cup {None} : ModelGet(key, uid)
    \/ \E h \in DOMAIN feats, key \in ModelPropKeys, value \in ModelValues :
            LeafCount(feats) < MaxLeaf /\ Set(h, key, value)
    \/ \E h \in DOMAIN feats, key \in ModelPropKeys, value \in ModelValues,
           uid \in Uids \cup {None} :
            LeafCount(feats) < MaxLeaf /\ Add(h, key, value, uid)
    \/ Run
    \/ RoundTrip

SpecModel == InitModel /\ [][NextModel]_vars

(***************************************************************************)
(* SpecReg: the authoring of the two registries                            *)
(***************************************************************************)
\* the arguments of a registration, as the call made last records them
RegArgs(schema, singleton, required, uid_required) ==
    [schema |-> schema, singleton |-> singleton, required |-> required,
     uid_required |-> uid_required]

\* fspec.add_prop_spec(key, schema, singleton=.., required=.., uid_required=..)
AddPropSpec(key, schema, singleton, required, uid_required) ==
    LET r == add_prop_spec(fspec, key, schema, singleton, required, PyStr(0), uid_required)
    IN  /\ fspec' = r.spec
        /\ last' = Call("add_prop_spec", 0, key,
                        RegArgs(schema, singleton, required, uid_required), None, r.err, NoRet)
        /\ UNCHANGED <<mspec, rspec, rclass, feats, model, results>>

\* mspec.add_feature_spec(key, feature_spec, singleton=.., required=.., uid_required=..)
AddFeatureSpec(key, feature_spec, singleton, required, uid_required) ==
    LET r == add_feature_spec(mspec, key, feature_spec, singleton, required, PyStr(0),
                              uid_required)
    IN  /\ mspec' = r.spec
        /\ last' = Call("add_feature_spec", 0, key,
                        RegArgs(feature_spec, singleton, required, uid_required), None,
                        r.err, NoRet)
        /\ UNCHANGED <<fspec, rspec, rclass, feats, model, results>>

\* the names an author registers
RegPropKeys == {"a", "b"}

RegFeatKeys == {"F"}

\* the schemas an author passes to add_prop_spec
RegPropSchemas == {TypeTag("int"), OtherObject}

\* the objects an author passes to add_feature_spec
RegFeatSchemas == {FeatureSpecRef, OtherObject}

PyBools == {PyBool(FALSE), PyBool(TRUE)}

InitReg ==
    /\ fspec = EmptySpec
    /\ mspec = EmptySpec
    /\ rspec = <<>>
    /\ rclass = FALSE
    /\ feats = <<>>
    /\ model = EmptyItemDict
    /\ results = <<>>
    /\ last = Call("init", 0, "", None, None, "ok", NoRet)

NextReg ==
    \/ \E key \in RegPropKeys, schema \in RegPropSchemas,
           singleton \in PyBools, required \in PyBools, uid_required \in PyBools :
            AddPropSpec(key, schema, singleton, required, uid_required)
    \/ \E key \in RegFeatKeys, schema \in RegFeatSchemas,
           singleton \in PyBools, required \in PyBools, uid_required \in PyBools :
            AddFeatureSpec(key, schema, singleton, required, uid_required)

SpecReg == InitReg /\ [][NextReg]_vars

(***************************************************************************)
(* Properties                                                              *)
(***************************************************************************)
IsSingleton(specs, key) == HasKey(specs, key) /\ Truthy(specs.ent[key].singleton)

IsList(specs, key) == HasKey(specs, key) /\ ~Truthy(specs.ent[key].singleton)

\* the call made last is op on the name key and returned normally
Done(c, op, key) == c.op = op /\ c.key = key /\ c.err = "ok"

\* C1: for a registered singleton name a successful set(name, v) leaves
\* exactly the value v stored at ordinal 0, no other call changes what is
\* stored for the name, and get(name) returns the stored value itself, not
\* a list
C1_SingletonSetGet ==
    [][\A key \in DOMAIN fspec.ent : IsSingleton(fspec, key) =>
          LET h == last'.h
          IN  /\ Done(last', "set", key) => feats'[h].map[key] = (0 :> last'.val)
              /\ ~Done(last', "set", key) =>
                    \A g \in DOMAIN feats : Stored(feats'[g], key) = Stored(feats[g], key)
              /\ (last'.op = "get" /\ last'.key = key /\ Stored(feats[h], key) # <<>>) =>
                    /\ last'.err = "ok"
                    /\ last'.ret = Ret("value", <<Stored(feats[h], key)[1]>>)]_vars

\* get("a") returned the int 1 itself, the value stored by set
C1_Witness ==
    /\ last.op = "get" /\ last.key = "a" /\ last.err = "ok"
    /\ last.ret = Ret("value", <<PyInt(1)>>)
    /\ feats[1].map["a"] = (0 :> PyInt(1))

\* C2: for a registered non-singleton name the stored values are exactly
\* the values of the successful add calls, in call order (a successful add
\* appends its value and no other call changes the stored sequence);
\* get(name) without a uid returns that sequence and iter(name) yields it
C2_AddGetIter ==
    [][\A key \in DOMAIN fspec.ent : IsList(fspec, key) =>
          LET h == last'.h
          IN  /\ Done(last', "add", key) =>
                    Stored(feats'[h], key) = Append(Stored(feats[h], key), last'.val)
              /\ ~Done(last', "add", key) =>
                    \A g \in DOMAIN feats : Stored(feats'[g], key) = Stored(feats[g], key)
              /\ (last'.op = "get" /\ last'.key = key /\ last'.uid = None
                    /\ Stored(feats[h], key) # <<>>) =>
                    last'.err = "ok" /\ last'.ret = Ret("list", Stored(feats[h], key))
              /\ (last'.op = "iter" /\ last'.key = key) =>
                    last'.err = "ok" /\ last'.ret = Ret("list", Stored(feats[h], key))]_vars

\* C3: for a singleton feature name the Model stores exactly one feature,
\* the one the most recent set_feature call returned
C3_SetFeatureOverwrites ==
    \A key \in DOMAIN mspec.ent : IsSingleton(mspec, key) =>
        /\ Len(Stored(model, key)) <= 1
        /\ Done(last, "set_feature", key) =>
              /\ Stored(model, key) = last.ret.val
              /\ US_get(mspec, model, key, NoRet, None).ret = Ret("value", last.ret.val)

\* the number of values an entry requires: required is a bool
RequiredCount(entry) == IF Truthy(entry.required) THEN 1 ELSE 0

\* every required feature and every required property of a stored feature
\* has as many values as it requires
RequiredMet ==
    /\ \A key \in DOMAIN mspec.ent :
            Len(Stored(model, key)) >= RequiredCount(mspec.ent[key])
    /\ \A key \in DOMAIN model.map : \A i \in DOMAIN model.map[key] :
            \A p \in DOMAIN fspec.ent :
                Len(Stored(feats[model.map[key][i]], p)) >= RequiredCount(fspec.ent[p])

\* C4: run() returns normally only when every required count is met
C4_RunChecksRequired == (last.op = "run" /\ last.err = "ok") => RequiredMet

\* max_items of the entry 'B' of tests/test_required_items.py
MaxItems == 3

\* C5: the number of values stored for a non-singleton name never exceeds
\* the max_items of its entry
C5_CountWithinMaxItems ==
    \A h \in DOMAIN feats : \A key \in DOMAIN fspec.ent :
        IsList(fspec, key) => Len(Stored(feats[h], key)) <= MaxItems

\* the leaf values of a feature's to_dict(), per registered property
NormFeature(fd) == [p \in DOMAIN fspec.ent |-> IF p \in DOMAIN fd THEN fd[p] ELSE <<>>]

\* the features of a Model's to_dict(), per registered feature name
NormModel(md) ==
    [key \in DOMAIN mspec.ent |->
        IF key \in DOMAIN md THEN [i \in 1..Len(md[key]) |-> NormFeature(md[key][i])]
        ELSE <<>>]

\* C6: from_dict(to_dict()) on a fresh Model succeeds and gives the same
\* number of features per feature name and the same leaf values in the same
\* order per property
C6_RoundTrip ==
    last.op = "from_dict" =>
        /\ last.err = "ok"
        /\ NormModel(last.ret.val[1]) = NormModel(MS_to_dict(model, feats))

\* the registry the call made last (add_prop_spec / add_feature_spec) is on
RegOf(c, fs, ms) == IF c.op = "add_prop_spec" THEN fs ELSE ms

\* C7 as stated: keys lists the names of the successful calls in call order,
\* and every call whose name is already registered fails with DuplicateKey
\* (KeyError) and leaves the registry as it was
C7_DuplicateAlwaysKeyError ==
    [][last'.op \in {"add_prop_spec", "add_feature_spec"} =>
          LET before == RegOf(last', fspec, mspec)
              after == RegOf(last', fspec', mspec')
          IN  /\ last'.err = "ok" => SpecKeys(after) = Append(SpecKeys(before), last'.key)
              /\ last'.err # "ok" => after = before
              /\ HasKey(before, last'.key) => last'.err = "KeyError" /\ after = before]_vars

\* the arguments of a registration pass the checks made before the entry is
\* stored: the schema is of the kind the registry takes, the flags are bools
\* and uid_required is not set on a singleton
ValidRegArgs(c) ==
    /\ c.op = "add_prop_spec" => c.val.schema.kind \in {"type", "dict"}
    /\ c.op = "add_feature_spec" => c.val.schema.kind = "FeatureSpec"
    /\ c.val.singleton.t = "bool" /\ c.val.required.t = "bool"
    /\ c.val.uid_required.t = "bool"
    /\ ~(Truthy(c.val.uid_required) /\ Truthy(c.val.singleton))

\* C7 (amended): keys lists the names of the successful calls in call order;
\* a call whose name is already registered fails, with DuplicateKey
\* (KeyError) when its arguments are valid and with the error of the
\* argument check (TypeError, ValueError) otherwise, and leaves the key
\* order and the entries as they were
C7_RegistrationOrder ==
    [][last'.op \in {"add_prop_spec", "add_feature_spec"} =>
          LET before == RegOf(last', fspec, mspec)
              after == RegOf(last', fspec', mspec')
          IN  /\ last'.err = "ok" =>
                    /\ SpecKeys(after) = Append(SpecKeys(before), last'.key)
                    /\ \A k \in DOMAIN before.ent : after.ent[k] = before.ent[k]
              /\ last'.err # "ok" => after = before
              /\ HasKey(before, last'.key) =>
                    /\ after = before
                    /\ ValidRegArgs(last') => last'.err = "KeyError"
                    /\ ~ValidRegArgs(last') => last'.err \in {"TypeError", "ValueError"}
              /\ (~HasKey(before, last'.key) /\ ValidRegArgs(last')) => last'.err = "ok"]_vars

\* "b" then "a" are registered and a further add_prop_spec("a", ..) failed
\* with KeyError
C7_Witness ==
    /\ last.op = "add_prop_spec" /\ last.key = "a" /\ last.err = "KeyError"
    /\ SpecKeys(fspec) = <<"b", "a">>

\* C8: set / set_feature on a registered non-singleton name and add /
\* add_feature on a registered singleton name fail with CardinalityError
\* (RuntimeError) when the call is otherwise valid, and store nothing
C8_CardinalityError ==
    [][LET c == last'
       IN  /\ (c.op = "set" /\ IsList(fspec, c.key)
                  /\ check_against_schema(fspec, c.key, c.val) = "ok") =>
                 c.err = "RuntimeError" /\ feats' = feats /\ model' = model
           /\ (c.op = "add" /\ IsSingleton(fspec, c.key)
                  /\ check_against_schema(fspec, c.key, c.val) = "ok") =>
                 c.err = "RuntimeError" /\ feats' = feats /\ model' = model
           /\ (c.op = "set_feature" /\ IsList(mspec, c.key)) =>
                 c.err = "RuntimeError" /\ feats' = feats /\ model' = model
           /\ (c.op = "add_feature" /\ IsSingleton(mspec, c.key)) =>
                 c.err = "RuntimeError" /\ feats' = feats /\ model' = model]_vars

\* add_feature("F") failed with RuntimeError on a Model that holds the
\* singleton feature "F"
C8_Witness ==
    /\ last.op = "add_feature" /\ last.key = "F" /\ last.err = "RuntimeError"
    /\ Stored(model, "F") = <<1>>

\* C9: set, add, get, iter and len on a name that is not registered fail
\* with UnknownKey (KeyError) and leave the store without that name
C9_UnknownKey ==
    (last.op \in {"set", "add", "get", "iter", "len"} /\ ~HasKey(fspec, last.key)) =>
        /\ last.err = "KeyError"
        /\ last.key \notin ID_keys(feats[last.h])

\* C10: a set or add in which the validation of the value fails raises the
\* validator's error (TypeError / ValueError) and leaves every stored value
\* as it was; no other path raises these errors
C10_SchemaViolation ==
    [][LET c == last'
       IN  /\ (c.op \in {"set", "add"} /\ HasKey(fspec, c.key)
                  /\ (c.op = "add" => check_uid_required(fspec, c.key, c.uid) = "ok")) =>
                 IF schemadict_validate(fspec.ent[c.key].schema, c.val) # "ok"
                 THEN /\ c.err = schemadict_validate(fspec.ent[c.key].schema, c.val)
                      /\ feats' = feats
                 ELSE c.err \notin {"TypeError", "ValueError"}
           /\ (c.op \in {"set", "add"} /\ c.err \in {"TypeError", "ValueError"}) =>
                 feats' = feats]_vars

\* add("c", 0, uid="u1") failed with ValueError and "c" still holds the one
\* value added before; set("a", "s") failed with TypeError likewise
C10_Witness ==
    /\ last.op = "add" /\ last.key = "c" /\ last.val = PyInt(0) /\ last.err = "ValueError"
    /\ Stored(feats[1], "c") = <<PyInt(1)>>
    /\ Stored(feats[1], "a") = <<PyInt(1)>>

(***************************************************************************)
(* SpecStore: one ItemDict (the _items of feature 1), used directly and    *)
(* through add / set of the user space that owns it                        *)
(***************************************************************************)
\* most values the ItemDict holds
MaxStore == 2

\* d[kmain] = value
SetItem(kmain, value) ==
    /\ feats' = [feats EXCEPT ![1] = ID_setitem(@, kmain, value)]
    /\ last' = Call("setitem", 1, kmain, value, None, "ok", NoRet)
    /\ UNCHANGED <<regvars, model, results>>

\* d[kmain]
GetItem(kmain) ==
    /\ feats' = [feats EXCEPT ![1] = ID_touch(@, kmain)]
    /\ last' = Call("getitem", 1, kmain, None, None, "ok",
                    Ret("dict", <<ID_touch(feats[1], kmain).map[kmain]>>))
    /\ UNCHANGED <<regvars, model, results>>

\* del d[kmain]
DelItem(kmain) ==
    /\ feats' = [feats EXCEPT ![1] = ID_delitem(@, kmain)]
    /\ last' = Call("delitem", 1, kmain, None, None, "ok", NoRet)
    /\ UNCHANGED <<regvars, model, results>>

\* d.assign_uid(kmain, uid, idx)
AssignUid(kmain, uid, idx) ==
    LET r == ID_assign_uid(feats[1], kmain, uid, idx)
    IN  /\ feats' = [feats EXCEPT ![1] = r.d]
        /\ last' = Call("assign_uid", 1, kmain, PyInt(idx), uid, r.err, NoRet)
        /\ UNCHANGED <<regvars, model, results>>

\* d.get_by_uid(kmain, uid)
GetByUid(kmain, uid) ==
    LET r == ID_get_by_uid(feats[1], kmain, uid)
    IN  /\ last' = Call("get_by_uid", 1, kmain, None, uid, r.err, r.ret)
        /\ UNCHANGED <<regvars, feats, model, results>>

\* the names, values, UIDs and ordinals used on the ItemDict
StoreKeys == {"a", "b"}

StoreValues == {PyInt(0), PyInt(1)}

StoreUids == {PyStr(1), PyStr(2)}

StoreIdx == {-1, 0}

NextStore ==
    \/ \E kmain \in StoreKeys, value \in StoreValues :
            Count(feats[1]) < MaxStore /\ SetItem(kmain, value)
    \/ \E kmain \in StoreKeys : GetItem(kmain)
    \/ \E kmain \in StoreKeys : DelItem(kmain)
    \/ \E kmain \in StoreKeys, uid \in StoreUids, idx \in StoreIdx : AssignUid(kmain, uid, idx)
    \/ \E kmain \in StoreKeys, uid \in StoreUids : GetByUid(kmain, uid)
    \/ \E key \in StoreKeys, value \in StoreValues, uid \in StoreUids \cup {None} :
            Count(feats[1]) < MaxStore /\ Add(1, key, value, uid)
    \/ \E key \in StoreKeys, value \in StoreValues : Set(1, key, value)

SpecStore == Init /\ [][NextStore]_vars

\* the number of values stored for kmain
CountOf(d, kmain) == IF kmain \in DOMAIN d.map THEN Cardinality(DOMAIN d.map[kmain]) ELSE 0

\* uid is bound for kmain
BoundUid(d, kmain, uid) == kmain \in DOMAIN d.uid /\ uid \in DOMAIN d.uid[kmain]

\* C11: a successful add(name, value, uid=u) binds u to the ordinal of the
\* value it appended, and get(name, uid=u) / get_by_uid(name, u) return that
\* value; adding further values to the store changes no value a UID leads to
C11_UidBindsAppended ==
    [][LET c == last'
           d == feats[1]
           e == feats'[1]
       IN  /\ (Done(c, "add", c.key) /\ c.uid # None) =>
                 /\ BoundUid(e, c.key, c.uid)
                 /\ e.uid[c.key][c.uid] = CountOf(d, c.key)
                 /\ e.map[c.key][CountOf(d, c.key)] = c.val
                 /\ ID_get_by_uid(e, c.key, c.uid).ret = Ret("value", <<c.val>>)
                 /\ US_get(fspec, e, c.key, NoRet, c.uid).ret = Ret("value", <<c.val>>)
           /\ c.op \in {"add", "setitem"} =>
                 \A k \in DOMAIN d.uid : \A u \in DOMAIN d.uid[k] :
                     ID_get_by_uid(d, k, u).err = "ok" =>
                         ID_get_by_uid(e, k, u) = ID_get_by_uid(d, k, u)
           /\ (c.op = "get_by_uid" /\ ID_get_by_uid(d, c.key, c.uid).err = "ok") =>
                 c.err = "ok" /\ c.ret = Ret("value", <<d.map[c.key][d.uid[c.key][c.uid]]>>)]_vars

\* add("b", 1, uid="u2") succeeded after add("b", 0, uid="u1"): "u1" still
\* leads to the first value and "u2" to the one just appended
C11_Witness ==
    /\ Done(last, "add", "b") /\ last.uid = PyStr(2) /\ last.val = PyInt(1)
    /\ Stored(feats[1], "b") = <<PyInt(0), PyInt(1)>>
    /\ feats[1].uid["b"] = (PyStr(1) :> 0) @@ (PyStr(2) :> 1)

\* C12: assign_uid(name, uid, ordinal) fails with DuplicateUID (KeyError)
\* whenever uid is already bound for name, whatever the ordinal, and leaves
\* the store as it was
C12_DuplicateUid ==
    [][(last'.op = "assign_uid" /\ BoundUid(feats[1], last'.key, last'.uid)) =>
          last'.err = "KeyError" /\ feats' = feats]_vars

\* assign_uid("b", "u1", 0) failed with KeyError while "u1" is bound to the
\* ordinal 0: the ordinal asked for is the one the UID already has
C12_Witness ==
    /\ last.op = "assign_uid" /\ last.key = "b" /\ last.uid = PyStr(1)
    /\ last.val = PyInt(0) /\ last.err = "KeyError"
    /\ BoundUid(feats[1], "b", PyStr(1)) /\ feats[1].uid["b"][PyStr(1)] = 0
    /\ Len(Stored(feats[1], "b")) = 2

\* C19: for every name the mapping uid -> ordinal is injective and the
\* mapping ordinal -> uid is its inverse
C19_UidInjective ==
    \A k \in DOMAIN feats[1].uid :
        LET uid == feats[1].uid[k]
            idx == feats[1].idx[k]
        IN  /\ \A u1 \in DOMAIN uid : \A u2 \in DOMAIN uid : uid[u1] = uid[u2] => u1 = u2
            /\ \A u \in DOMAIN uid : uid[u] \in DOMAIN idx /\ idx[uid[u]] = u
            /\ \A i \in DOMAIN idx : idx[i] \in DOMAIN uid /\ uid[idx[i]] = i

\* C20: for every name the ordinals that hold a value are 0 .. count - 1; an
\* append (d[name] = value, add) stores at the ordinal count, and the
\* overwrite of set leaves exactly the ordinal 0
C20_DenseOrdinals ==
    [][LET c == last'
           d == feats[1]
           e == feats'[1]
       IN  /\ \A k \in DOMAIN e.map : DOMAIN e.map[k] = 0 .. (CountOf(e, k) - 1)
           /\ (c.op = "setitem" \/ Done(c, "add", c.key)) =>
                 /\ CountOf(e, c.key) = CountOf(d, c.key) + 1
                 /\ e.map[c.key][CountOf(d, c.key)] = c.val
                 /\ \A i \in 0 .. (CountOf(d, c.key) - 1) : e.map[c.key][i] = d.map[c.key][i]
           /\ Done(c, "set", c.key) => e.map[c.key] = (0 :> c.val)]_vars

\* set("a", 1) succeeded on a store that held two values for "a" and left
\* the one ordinal 0, while "b" holds a value appended at the ordinal 0
C20_Witness ==
    /\ Done(last, "set", "a") /\ last.val = PyInt(1)
    /\ feats[1].map["a"] = (0 :> PyInt(1))
    /\ CountOf(feats[1], "b") = 1

(***************************************************************************)
(* SpecMany: one feature user space filled by add and add_many             *)
(***************************************************************************)
\* most values passed to one add_many call
MaxMany == 2

\* the tuple of values of an add_many call
PyTuple(values) == [t |-> "tuple", v |-> values]

\* feature.add_many(key, *values)
AddMany(h, key, values) ==
    LET r == US_add_many(fspec, feats[h], key, values)
    IN  /\ feats' = [feats EXCEPT ![h] = r.items]
        /\ last' = Call("add_many", h, key, PyTuple(values), None, r.err, r.ret)
        /\ UNCHANGED <<regvars, model, results>>

\* the argument lists of add_many: an int that every int schema takes and a str
ManyValues == UNION {[1..n -> {PyInt(1), PyStr(0)}] : n \in 0..MaxMany}

NextMany ==
    \/ \E key \in PropKeys, values \in ManyValues :
            Count(feats[1]) + Len(values) <= MaxLen /\ AddMany(1, key, values)
    \/ \E key \in PropKeys, value \in Values, uid \in Uids \cup {None} :
            Count(feats[1]) < MaxLen /\ Add(1, key, value, uid)

SpecMany == Init /\ [][NextMany]_vars

\* C13: add(name, value) with no uid, and add_many with at least one value,
\* on an entry registered with uid_required fail with MissingUID
\* (RuntimeError) and store nothing
C13_MissingUid ==
    [][LET c == last'
       IN  (/\ \/ c.op = "add" /\ c.uid = None
               \/ c.op = "add_many" /\ c.val.v # <<>>
            /\ HasKey(fspec, c.key) /\ Truthy(fspec.ent[c.key].uid_required)) =>
               c.err = "RuntimeError" /\ feats' = feats]_vars

\* add_many("c", 1, 1) failed with RuntimeError and "c" still holds the one
\* value that was added with a UID
C13_Witness ==
    /\ last.op = "add_many" /\ last.key = "c" /\ last.val.v = <<PyInt(1), PyInt(1)>>
    /\ last.err = "RuntimeError"
    /\ Stored(feats[1], "c") = <<PyInt(1)>>

\* the error add(key, value) raises when no uid is given ("ok" if none): it
\* does not depend on what is stored
AddError(key, value) ==
    IF ~HasKey(fspec, key) THEN "KeyError"
    ELSE IF Truthy(fspec.ent[key].uid_required) THEN "RuntimeError"
    ELSE IF schemadict_validate(fspec.ent[key].schema, value) # "ok"
         THEN schemadict_validate(fspec.ent[key].schema, value)
    ELSE IF Truthy(fspec.ent[key].singleton) THEN "RuntimeError"
    ELSE "ok"

\* the position of the first value of an add_many call that fails
\* (one past the end if none does)
FirstFailing(key, values) ==
    LET Bad == {i \in 1..Len(values) : AddError(key, values[i]) # "ok"}
    IN  IF Bad = {} THEN Len(values) + 1 ELSE Min(Bad)

SE_set_singleton(entry, singleton) ==
    IF check_type(singleton, "bool") # "ok" THEN [err |-> "TypeError", entry |-> entry]
    ELSE [err |-> "ok", entry |-> [entry EXCEPT !.singleton = singleton]]

\* SpecEntry.required setter: [err, entry]
SE_set_required(entry, required) ==
    IF check_type(required, "bool") # "ok" THEN [err |-> "TypeError", entry |-> entry]
    ELSE [err |-> "ok", entry |-> [entry EXCEPT !.required = required]]

\* SpecEntry.uid_required setter: [err, entry]
SE_set_uid_required(entry, uid_required) ==
    IF check_type(uid_required, "bool") # "ok" THEN [err |-> "TypeError", entry |-> entry]
    ELSE IF Truthy(uid_required) /\ Truthy(entry.singleton)
         THEN [err |-> "ValueError", entry |-> entry]
    ELSE [err |-> "ok", entry |-> [entry EXCEPT !.uid_required = uid_required]]

\* entry.singleton = value, for the entry registered as key
SetSingleton(key, value) ==
    LET r == SE_set_singleton(fspec.ent[key], value)
    IN  /\ fspec' = [fspec EXCEPT !.ent[key] = r.entry]
        /\ last' = Call("entry.singleton", 0, key, value, None, r.err, NoRet)
        /\ UNCHANGED <<mspec, rspec, rclass, feats, model, results>>

\* entry.required = value
SetRequired(key, value) ==
    LET r == SE_set_required(fspec.ent[key], value)
    IN  /\ fspec' = [fspec EXCEPT !.ent[key] = r.entry]
        /\ last' = Call("entry.required", 0, key, value, None, r.err, NoRet)
        /\ UNCHANGED <<mspec, rspec, rclass, feats, model, results>>

\* entry.uid_required = value
SetUidRequired(key, value) ==
    LET r == SE_set_uid_required(fspec.ent[key], value)
    IN  /\ fspec' = [fspec EXCEPT !.ent[key] = r.entry]
        /\ last' = Call("entry.uid_required", 0, key, value, None, r.err, NoRet)
        /\ UNCHANGED <<mspec, rspec, rclass, feats, model, results>>

\* the values an author passes as required: bools, counts, a negative
\* number and a str
AttrRequired == PyBools \cup {PyInt(0), PyInt(3), PyInt(-2), PyStr(0)}

\* the values assigned to the bool attributes of an entry
AttrValues == PyBools \cup {PyInt(3)}

NextAttr ==
    \/ \E key \in RegPropKeys, singleton \in PyBools, required \in AttrRequired,
           uid_required \in PyBools :
            AddPropSpec(key, TypeTag("int"), singleton, required, uid_required)
    \/ \E key \in DOMAIN fspec.ent, value \in AttrValues : SetSingleton(key, value)
    \/ \E key \in DOMAIN fspec.ent, value \in AttrValues : SetRequired(key, value)
    \/ \E key \in DOMAIN fspec.ent, value \in AttrValues : SetUidRequired(key, value)

SpecAttr == InitReg /\ [][NextAttr]_vars

\* C15: no entry of a registry has uid_required and singleton both true
C15_UidRequiredNotSingleton ==
    \A key \in DOMAIN fspec.ent :
        ~(Truthy(fspec.ent[key].uid_required) /\ Truthy(fspec.ent[key].singleton))

\* C16: add_prop_spec of a new name, with arguments that are valid
\* otherwise, registers the entry when required is a non-negative integer
\* (a bool counts as 0 / 1) and fails with InvalidArgument (TypeError,
\* ValueError), registering nothing, when required is negative or no integer
C16_RequiredCounts ==
    [][(/\ last'.op = "add_prop_spec"
        /\ ~HasKey(fspec, last'.key)
        /\ last'.val.schema.kind \in {"type", "dict"}
        /\ ~(Truthy(last'.val.uid_required) /\ Truthy(last'.val.singleton))) =>
           IF last'.val.required.t \in {"int", "bool"} /\ last'.val.required.v >= 0
           THEN last'.err = "ok" /\ HasKey(fspec', last'.key)
           ELSE last'.err \in {"TypeError", "ValueError"} /\ fspec' = fspec]_vars

(***************************************************************************)
(* SpecRun: one Model whose class was made from mspec before or after the  *)
(* Results registry was declared;                                          *)
(* class Model(mspec.user_class) ...; m = Model()                          *)
(***************************************************************************)
\* mspec.results = rspec_new (a ModelSpec): the setter of ModelSpec.results.
\* The class made earlier keeps the _result_user_class it was made with.
DeclareResults ==
    /\ rspec' = <<AuthoredResultSpec>>
    /\ last' = Call("results", 0, "", None, None, "ok", NoRet)
    /\ UNCHANGED <<fspec, mspec, rclass, feats, model, results>>

\* the Results registry is declared before the class is made, or not yet
InitRun ==
    /\ fspec = AuthoredFeatureSpec
    /\ mspec = AuthoredModelSpec
    /\ rspec \in {<<>>, <<AuthoredResultSpec>>}
    /\ rclass = (rspec # <<>>)
    /\ feats = <<>>
    /\ model = EmptyItemDict
    /\ results = <<>>
    /\ last = Call("init", 0, "", None, None, "ok", NoRet)

NextRun ==
    \/ DeclareResults
    \/ Run
    \/ \E key \in FeatKeys : Len(feats) < MaxFeat /\ SetFeature(key)
    \/ \E key \in FeatKeys, uid \in Uids \cup {None} :
            Len(feats) < MaxFeat /\ AddFeature(key, uid)
    \/ \E key \in FeatKeys, uid \in Uids \cup {None} : ModelGet(key, uid)

SpecRun == InitRun /\ [][NextRun]_vars

\* C17: after run() the Model owns a Results user space when its registry
\* has a Results registry at that time, and has none when it has none
C17_RunMakesResults ==
    last.op = "run" => (results # <<>>) = (rspec # <<>>)

\* C18 as stated: iter(name) on a registered singleton name fails with
\* CardinalityError (RuntimeError, the error of set on a non-singleton name)
C18_IterSingletonCardinalityError ==
    (last.op = "iter" /\ IsSingleton(fspec, last.key)) => last.err = "RuntimeError"

\* C18 (amended): iter(name) on a registered singleton name fails with
\* KeyError, the error kind of UnknownKey, yields no value and leaves the
\* store as it was
C18_IterSingletonKeyError ==
    [][(last'.op = "iter" /\ IsSingleton(fspec, last'.key)) =>
          /\ last'.err = "KeyError"
          /\ last'.ret = NoRet
          /\ last'.err = US_iter(fspec, feats[last'.h], "x").err
          /\ feats' = feats]_vars

\* iter("a") failed with KeyError while the singleton "a" holds a value
C18_Witness ==
    /\ last.op = "iter" /\ last.key = "a" /\ last.err = "KeyError"
    /\ Stored(feats[1], "a") = <<PyInt(1)>>

PyDict(n) == [t |-> "dict", v |-> n]

\* a schema dict that maps field names to the schemas of the fields, e.g.
\* {'name': {'type': str}, 'mass': {'type': float, '>': 0}}
SchemaFields == [kind |-> "dict", type |-> "fields", gt |-> {}]

\* the call _check_against_schema makes: "wrapped" is
\* schemadict({key: schema}).validate({key: value}), "fields" is
\* schemadict(schema).validate(value), "none" is no call
validation_shape(specs, key, value) ==
    IF specs.ent[key].schema.kind # "dict" THEN "none"
    ELSE IF value.t # "dict" THEN "wrapped"
    ELSE "fields"

\* what the validator may raise for a call whose outcome depends on the
\* fields of the value
ValidatorOutcomes == {"ok", "TypeError", "ValueError", "KeyError"}

\* user_space._check_against_schema(key, value); a value that is no dict is
\* validated against a one-value schema as schemadict_validate tells, every
\* other call has one of the outcomes of the validator
CheckAgainstSchema(key, value) ==
    LET shape == validation_shape(fspec, key, value)
        schema == fspec.ent[key].schema
    IN  /\ HasKey(fspec, key)
        /\ \E err \in ValidatorOutcomes :
              /\ (shape = "wrapped" /\ schema.type # "fields") =>
                     err = schemadict_validate(schema, value)
              /\ last' = Call("_check_against_schema", 0, key, value, None, err,
                              Ret("shape", <<shape>>))
        /\ UNCHANGED <<regvars, feats, model, results>>

\* the schemas registered: the primitive types int and dict and a dict of fields
ShapeSchemas == {TypeTag("int"), TypeTag("dict"), SchemaFields}

\* the candidate values: an int and a dict
ShapeValues == {PyInt(1), PyDict(0)}

NextShape ==
    \/ \E key \in RegPropKeys, schema \in ShapeSchemas, singleton \in PyBools :
            AddPropSpec(key, schema, singleton, PyBool(FALSE), PyBool(FALSE))
    \/ \E key \in RegPropKeys, value \in ShapeValues : CheckAgainstSchema(key, value)

SpecShape == InitReg /\ [][NextShape]_vars

\* C22: the shape of the validation follows from the schema of the entry
\* alone: the value is wrapped as a single field for an entry registered
\* from a bare primitive type and validated field by field for an entry
\* registered with a dict of fields, whether or not the value is a dict
C22_ShapeBySchema ==
    last.op = "_check_against_schema" =>
        last.ret = Ret("shape", <<IF fspec.ent[last.key].schema.type = "fields"
                                  THEN "fields" ELSE "wrapped">>)

(***************************************************************************)
(* SpecIter: one ItemDict that is written, given UIDs, measured and         *)
(* iterated by UID                                                          *)
(***************************************************************************)
RECURSIVE Repeat(_, _)
\* the list of n times x
Repeat(x, n) == IF n = 0 THEN <<>> ELSE <<x>> \o Repeat(x, n - 1)

RECURSIVE SortedValuesFrom(_, _)
\* the values of the dict f that are in ords (a sorted list without
\* repetition), each as often as f has it
SortedValuesFrom(f, ords) ==
    IF ords = <<>> THEN <<>>
    ELSE Repeat(Head(ords), Cardinality({u \in DOMAIN f : f[u] = Head(ords)}))
            \o SortedValuesFrom(f, Tail(ords))

\* sorted(f.values())
SortedValues(f) == SortedValuesFrom(f, SortedSeq({f[u] : u \in DOMAIN f}))

RECURSIVE YieldPairs(_, _, _)
\* the pairs (self._idx[kmain][idx], self._map[kmain][idx]) for the ordinals
\* of idxs up to the first ordinal that holds no value
YieldPairs(d, kmain, idxs) ==
    IF idxs = <<>> \/ Head(idxs) \notin DOMAIN d.map[kmain] THEN <<>>
    ELSE <<<<d.idx[kmain][Head(idxs)], d.map[kmain][Head(idxs)]>>>>
            \o YieldPairs(d, kmain, Tail(idxs))

\* iter_by_uid that yields a pair for every stored value, the ordinal
\* standing in where no UID is bound
ID_iter_all(d, kmain) ==
    IF kmain \notin DOMAIN d.uid THEN [err |-> "KeyError", ret |-> NoRet]
    ELSE [err |-> "ok",
          ret |-> Ret("list",
                      [i \in 1..Cardinality(DOMAIN d.map[kmain]) |->
                          LET o == SortedSeq(DOMAIN d.map[kmain])[i]
                          IN  <<IF o \in DOMAIN d.idx[kmain] THEN d.idx[kmain][o] ELSE PyInt(o),
                                d.map[kmain][o]>>])]

\* ItemDict.iter_by_uid, run to its end: [err, ret]; ret lists the pairs
\* yielded, err is the KeyError that ended the iteration, if any
ID_iter_by_uid(d, kmain) ==
    IF kmain \notin DOMAIN d.uid THEN [err |-> "KeyError", ret |-> NoRet]
    ELSE LET idxs == SortedValues(d.uid[kmain])
             pairs == YieldPairs(d, kmain, idxs)
         IN  [err |-> IF Len(pairs) = Len(idxs) THEN "ok" ELSE "KeyError",
              ret |-> Ret("list", pairs)]

\* ItemDict.len_of_type: [err, ret]; _map is a plain dict
ID_len_of_type_call(d, kmain) ==
    IF kmain \notin DOMAIN d.map THEN [err |-> "KeyError", ret |-> NoRet]
    ELSE [err |-> "ok", ret |-> Ret("int", <<ID_len_of_type(d, kmain)>>)]

\* list(d.iter_by_uid(kmain))
IterByUid(kmain) ==
    LET r == ID_iter_by_uid(feats[1], kmain)
    IN  /\ last' = Call("iter_by_uid", 1, kmain, None, None, r.err, r.ret)
        /\ UNCHANGED <<regvars, feats, model, results>>

\* d.len_of_type(kmain)
LenOfType(kmain) ==
    LET r == ID_len_of_type_call(feats[1], kmain)
    IN  /\ last' = Call("len_of_type", 1, kmain, None, None, r.err, r.ret)
        /\ UNCHANGED <<regvars, feats, model, results>>

NextIter ==
    \/ \E kmain \in StoreKeys, value \in StoreValues :
            Count(feats[1]) < MaxStore /\ SetItem(kmain, value)
    \/ \E kmain \in StoreKeys : GetItem(kmain)
    \/ \E kmain \in StoreKeys : DelItem(kmain)
    \/ \E kmain \in StoreKeys, uid \in StoreUids, idx \in StoreIdx : AssignUid(kmain, uid, idx)
    \/ \E kmain \in StoreKeys : IterByUid(kmain)
    \/ \E kmain \in StoreKeys : LenOfType(kmain)

SpecIter == Init /\ [][NextIter]_vars

C24_UnseenReadsEmpty ==
    /\ last.op = "getitem" =>
          last.err = "ok" /\ last.ret = Ret("dict", <<feats[1].map[last.key]>>)
    /\ last.op = "len_of_type" =>
          last.err = "ok" /\ last.ret = Ret("int", <<CountOf(feats[1], last.key)>>)

\* C29: every UID bound for a name is bound to an ordinal that holds a value
C29_BoundUidHasValue ==
    \A k \in DOMAIN feats[1].uid : \A u \in DOMAIN feats[1].uid[k] :
        feats[1].uid[k][u] \in DOMAIN feats[1].map[k]

(***************************************************************************)
(* SpecDict: one feature user space populated by from_dict                 *)
(***************************************************************************)
\* a dict passed as an argument
PyDictOf(d) == [t |-> "dict", v |-> d]

\* feature.from_dict(d) on the object self = [uid, items]: the loop assigns
\* nothing to self.uid, and self is returned
US_from_dict_self(specs, self, d) ==
    LET r == US_from_dict(specs, self.items, d)
    IN  [err |-> r.err, self |-> [uid |-> self.uid, items |-> r.items]]

\* feature.from_dict(d); ret is feature.to_dict() after the call
FromDict(h, d) ==
    LET r == US_from_dict_self(fspec, [uid |-> h, items |-> feats[h]], d)
    IN  /\ feats' = [feats EXCEPT ![h] = r.self.items]
        /\ last' = Call("from_dict", h, "", PyDictOf(d), None, r.err,
                        Ret("dict", <<US_to_dict(r.self.items, LevelFeature, r.self.uid)>>))
        /\ UNCHANGED <<regvars, model, results>>

\* the identifier written under '$uid' in the dicts passed to from_dict
ForeignUid == 7

\* the lists a dict passed to from_dict may hold under each key
DictEntries ==
    [k \in {"$level", "$uid", "a", "b", "x"} |->
        IF k = "$level" THEN {<<PyStr(LevelFeature)>>}
        ELSE IF k = "$uid" THEN {<<PyStr(ForeignUid)>>}
        ELSE IF k = "a" THEN {<<>>, <<PyInt(0)>>, <<PyStr(0)>>}
        ELSE IF k = "b" THEN {<<>>, <<PyInt(0)>>, <<PyInt(0), PyInt(1)>>}
        ELSE {<<PyInt(0)>>}]

\* the dicts passed to from_dict
Dicts ==
    UNION {{d \in [K -> UNION {DictEntries[k] : k \in K}] :
                \A k \in K : d[k] \in DictEntries[k]} : K \in SUBSET DOMAIN DictEntries}

\* the number of values a dict holds under the keys that do not start with '$'
DictCount(d) ==
    LET RECURSIVE Sum(_)
        Sum(S) == IF S = {} THEN 0
                  ELSE LET k == CHOOSE k \in S : TRUE
                       IN  (IF startswith_dollar(k) THEN 0 ELSE Len(d[k])) + Sum(S \ {k})
    IN  Sum(DOMAIN d)

NextDict ==
    \E h \in DOMAIN feats, d \in Dicts :
        Count(feats[h]) + DictCount(d) <= MaxLen /\ FromDict(h, d)

SpecDict == Init /\ [][NextDict]_vars

\* C25: from_dict ignores the keys that start with '$': they raise no
\* KeyError, store nothing and leave the identifier of the container as it
\* was; every other key is populated through set (singleton) or add
\* (non-singleton), and an unregistered one fails with KeyError
C25_FromDictSkipsReserved ==
    [][last'.op = "from_dict" =>
        LET h == last'.h
            d == last'.val.v
            plain == {k \in DOMAIN d : ~startswith_dollar(k)}
            unknown == {k \in plain : ~HasKey(fspec, k)}
        IN  /\ last'.err = "KeyError" => unknown # {}
            /\ unknown # {} => last'.err # "ok"
            /\ (plain = unknown /\ plain # {}) => (last'.err = "KeyError" /\ feats' = feats)
            /\ plain = {} => (last'.err = "ok" /\ feats' = feats)
            /\ \A k \in DOMAIN feats'[h].map : ~startswith_dollar(k)
            /\ last'.ret.val[1]["$uid"] = <<PyStr(h)>>
            /\ last'.err = "ok" =>
                  /\ \A k \in plain :
                        IF Truthy(fspec.ent[k].singleton)
                        THEN Stored(feats'[h], k) = <<d[k][1]>>
                        ELSE Stored(feats'[h], k) = Stored(feats[h], k) \o d[k]
                  /\ \A k \in DOMAIN feats[h].map \ plain :
                        Stored(feats'[h], k) = Stored(feats[h], k)
    ]_vars

\* from_dict of a dict with '$level', a foreign '$uid', the singleton "a"
\* and two values of "b" succeeded on the feature with identifier 1
C25_Witness ==
    /\ last.op = "from_dict" /\ last.err = "ok" /\ last.h = 1
    /\ last.val.v = [k \in {"$level", "$uid", "a", "b"} |->
                        IF k = "$level" THEN <<PyStr(LevelFeature)>>
                        ELSE IF k = "$uid" THEN <<PyStr(ForeignUid)>>
                        ELSE IF k = "a" THEN <<PyInt(0)>>
                        ELSE <<PyInt(0), PyInt(1)>>]
    /\ Stored(feats[1], "a") = <<PyInt(0)>>
    /\ Stored(feats[1], "b") = <<PyInt(0), PyInt(1)>>
    /\ DOMAIN feats[1].map = {"a", "b"}
    /\ last.ret.val[1]["$uid"] = <<PyStr(1)>>

(***************************************************************************)
(* SpecRef: feature user spaces and the registry they were made from;      *)
(* F = fspec.user_class; f = F() is done before and between registrations  *)
(***************************************************************************)
\* _BaseSpec.uid of the feature registry, the str made by uuid4() in __init__
FeatureSpecUid == 0

\* a user class that holds a copy of the registry taken when the class was
\* made (the registry is empty then) instead of the registry itself
provide_user_class_from_copy(spec_uid, specs) ==
    [_parent_specs |-> EmptySpec, _parent_uid |-> PyStr(spec_uid)]

\* _BaseSpec._provide_user_class_from_base: the class attribute
\* _parent_specs is the SpecDict object of the registry itself, so reading
\* it gives the registry's contents at the time of the read
provide_user_class_from_base(spec_uid, specs) ==
    [_parent_specs |-> specs, _parent_uid |-> PyStr(spec_uid)]

\* the class of the feature user spaces of the model
UserSpace == provide_user_class_from_base(FeatureSpecUid, fspec)

\* f = fspec.user_class()
NewFeature ==
    /\ feats' = Append(feats, EmptyItemDict)
    /\ last' = Call("user_class", Len(feats) + 1, "", None, None, "ok", NoRet)
    /\ UNCHANGED <<regvars, model, results>>

\* f.set(key, value), with the registry reached through the class of f
RefSet(h, key, value) ==
    LET r == US_set(UserSpace._parent_specs, feats[h], key, value)
    IN  /\ feats' = [feats EXCEPT ![h] = r.items]
        /\ last' = Call("set", h, key, value, None, r.err, r.ret)
        /\ UNCHANGED <<regvars, model, results>>

\* f.add(key, value), with the registry reached through the class of f
RefAdd(h, key, value) ==
    LET r == US_add(UserSpace._parent_specs, feats[h], key, value, None)
    IN  /\ feats' = [feats EXCEPT ![h] = r.items]
        /\ last' = Call("add", h, key, value, None, r.err, r.ret)
        /\ UNCHANGED <<regvars, model, results>>

\* f.get(key), with the registry reached through the class of f
RefGet(h, key) ==
    LET r == US_get(UserSpace._parent_specs, feats[h], key, NoRet, None)
    IN  /\ feats' = [feats EXCEPT ![h] = r.items]
        /\ last' = Call("get", h, key, None, None, r.err, r.ret)
        /\ UNCHANGED <<regvars, model, results>>

\* f._parent_uid
ParentUid(h) ==
    /\ last' = Call("_parent_uid", h, "", None, None, "ok",
                    Ret("value", <<UserSpace._parent_uid>>))
    /\ UNCHANGED <<regvars, feats, model, results>>

InitRef ==
    /\ fspec = EmptySpec
    /\ mspec = EmptySpec
    /\ rspec = <<>>
    /\ rclass = FALSE
    /\ feats = <<EmptyItemDict>>
    /\ model = EmptyItemDict
    /\ results = <<>>
    /\ last = Call("user_class", 1, "", None, None, "ok", NoRet)

\* the values written through the user spaces
RefValues == {PyInt(0)}

\* the names used on the user spaces: the two an author registers and one
\* that never is
RefKeys == RegPropKeys \cup {"x"}

NextRef ==
    \/ \E key \in RegPropKeys, singleton \in PyBools :
            AddPropSpec(key, TypeTag("int"), singleton, PyBool(FALSE), PyBool(FALSE))
    \/ Len(feats) < MaxFeat /\ NewFeature
    \/ \E h \in DOMAIN feats, key \in RefKeys, value \in RefValues :
            LeafCount(feats) < MaxLeaf /\ RefSet(h, key, value)
    \/ \E h \in DOMAIN feats, key \in RefKeys, value \in RefValues :
            LeafCount(feats) < MaxLeaf /\ RefAdd(h, key, value)
    \/ \E h \in DOMAIN feats, key \in RefKeys : RefGet(h, key)
    \/ \E h \in DOMAIN feats : ParentUid(h)

SpecRef == InitRef /\ [][NextRef]_vars

\* C26: a user space refers to the registry itself: set, add and get on
\* any user space accept exactly the names the registry holds at the time
\* of the call, whenever they were registered, and behave as the entry
\* registered says; every user space reports the identifier of the
\* registry as its parent identifier
C26_RegistryByReference ==
    [][/\ last'.op \in {"set", "add", "get"} =>
            LET h == last'.h
                key == last'.key
            IN  /\ ~HasKey(fspec, key) => (last'.err = "KeyError" /\ feats' = feats)
                /\ HasKey(fspec, key) =>
                      /\ last'.op = "get" => last'.err = "ok"
                      /\ (last'.op = "set" /\ IsSingleton(fspec, key)) =>
                            (last'.err = "ok" /\ Stored(feats'[h], key) = <<last'.val>>)
                      /\ (last'.op = "set" /\ IsList(fspec, key)) => last'.err = "RuntimeError"
                      /\ (last'.op = "add" /\ IsList(fspec, key)) =>
                            /\ last'.err = "ok"
                            /\ Stored(feats'[h], key) = Append(Stored(feats[h], key), last'.val)
                      /\ (last'.op = "add" /\ IsSingleton(fspec, key)) =>
                            last'.err = "RuntimeError"
       /\ last'.op = "_parent_uid" => last'.ret = Ret("value", <<PyStr(FeatureSpecUid)>>)
    ]_vars

\* the name "a" was registered as a singleton after the first user space
\* and its class were made, a second user space was made later, and
\* set("a", 0) on the first one succeeded
C26_Witness ==
    /\ Len(feats) = 2
    /\ IsSingleton(fspec, "a")
    /\ last.op = "set" /\ last.h = 1 /\ last.key = "a" /\ last.err = "ok"
    /\ Stored(feats[1], "a") = <<PyInt(0)>>

\* C27: an add(name, value, uid=u) that fails because u is already bound
\* for name leaves the values stored for name as they were before the call
C27_FailedAddLeavesStore ==
    [][(/\ last'.op = "add" /\ last'.err = "KeyError"
        /\ HasKey(fspec, last'.key)
        /\ BoundUid(feats[last'.h], last'.key, last'.uid))
           => Stored(feats'[last'.h], last'.key) = Stored(feats[last'.h], last'.key)
    ]_vars

\* C28: get, len and iter change nothing observable: the keys of the user
\* space and its to_dict() are after the call what they were before it
C28_ReadsChangeNothing ==
    [][last'.op \in {"get", "len", "iter"} =>
          /\ ID_keys(feats'[last'.h]) = ID_keys(feats[last'.h])
          /\ US_to_dict(feats'[last'.h], LevelFeature, last'.h)
                = US_to_dict(feats[last'.h], LevelFeature, last'.h)
    ]_vars

(***************************************************************************)
(* SpecResults: a Model whose class has a Results user class; run() is     *)
(* called again and again, and between the runs the Results user space is  *)
(* written as the user's run() does: fm = model.results.set_feature(key),  *)
(* fm.set(key, value)                                                      *)
(***************************************************************************)
\* model.results.set_feature(key)
ResultsSetFeature(key) ==
    LET r == MS_set_feature(rspec[1], results[1], feats, key)
    IN  /\ results # <<>>
        /\ results' = <<r.items>>
        /\ feats' = r.heap
        /\ last' = Call("results.set_feature", 0, key, None, None, r.err, r.ret)
        /\ UNCHANGED <<regvars, model>>

\* model.results.get(key)
ResultsGet(key) ==
    LET r == US_get(rspec[1], results[1], key, NoRet, None)
    IN  /\ results # <<>>
        /\ results' = <<r.items>>
        /\ last' = Call("results.get", 0, key, None, None, r.err, r.ret)
        /\ UNCHANGED <<regvars, feats, model>>

\* the feature names used on the Results user space
ResultKeys == {"R", "X"}

NextResults ==
    \/ Run
    \/ \E key \in ResultKeys : Len(feats) < MaxFeat /\ ResultsSetFeature(key)
    \/ \E key \in ResultKeys : ResultsGet(key)
    \/ \E h \in DOMAIN feats, key \in {"a"}, value \in ModelValues :
            LeafCount(feats) < MaxLeaf /\ Set(h, key, value)

SpecResults == InitModel /\ [][NextResults]_vars

\* C30: every run() gives the Model a new, empty Results user space: what
\* was written into results before the run is not in it, get on it gives
\* the default, and a singleton result feature that is set as the first
\* write after a run has count 1
C30_RunGivesFreshResults ==
    [][/\ last'.op = "run" => results' = <<EmptyItemDict>>
       /\ (last.op = "run" /\ last'.op = "results.get" /\ HasKey(rspec[1], last'.key))
             => (last'.err = "ok" /\ last'.ret = NoRet)
       /\ (last.op = "run" /\ last'.op = "results.set_feature" /\ last'.err = "ok")
             => /\ CountOf(results'[1], last'.key) = 1
                /\ Stored(results'[1], last'.key) = <<Len(feats')>>
                /\ feats'[Len(feats')] = EmptyItemDict
    ]_vars

\* the result feature "R" was set in one run and given a value, run() was
\* called again, and "R" set after it is the only feature under "R"
C30_Witness ==
    /\ last.op = "results.set_feature" /\ last.key = "R" /\ last.err = "ok"
    /\ Len(feats) = 2
    /\ Stored(feats[1], "a") = <<PyInt(0)>>
    /\ Stored(results[1], "R") = <<2>>

====
